---- MODULE Spec2Model ----
(***************************************************************************)
(* A model of the earnest package: the "magic" containers of               *)
(* earnest/magic.py (enchant_value, MagicDict, MagicList, the type         *)
(* filtered view, NothingContainer) and lookup_path of earnest/earnest.py. *)
(*                                                                         *)
(* Encoding.  A text string is a sequence of one-character strings, so     *)
(* that str.split, str.join, str() and int() can be modelled by what they  *)
(* do.  Every Python object is a record of one shape                       *)
(*     [tag, s, n, ty, items]                                              *)
(* where tag is the object's class, s the text of a str, n the number of   *)
(* an int / bool (0, 1) / float, ty the type filter of a view, and items   *)
(* the entries <<[k, v], ...>> of a container in iteration order.  A key   *)
(* (anything that can stand between the brackets of obj[...]) is a record  *)
(*     [kind, s, n, start, stop, step, path].                              *)
(***************************************************************************)
EXTENDS Integers, Sequences, FiniteSets, TLC

\* ------------------------------------------------------------------ keys

SimpleKey(kind, s, n) ==
    [kind |-> kind, s |-> s, n |-> n, start |-> <<>>, stop |-> "",
     step |-> FALSE, path |-> <<>>]

StrK(s) == SimpleKey("str", s, 0)
IntK(n) == SimpleKey("int", <<>>, n)
FloatK == SimpleKey("float", <<>>, 0)
NoneK == SimpleKey("None", <<>>, 0)

\* slice(start, stop, step): start is <<>> for None and <<key>> otherwise,
\* stop is a type tag, step tells whether a step was given.
SliceK(start, stop, step) ==
    [kind |-> "slice", s |-> <<>>, n |-> 0, start |-> start, stop |-> stop,
     step |-> step, path |-> <<>>]

TupleK(path) ==
    [kind |-> "tuple", s |-> <<>>, n |-> 0, start |-> <<>>, stop |-> "",
     step |-> FALSE, path |-> path]

\* ---------------------------------------------------------------- values

Atom(tag, s, n) == [tag |-> tag, s |-> s, n |-> n, ty |-> "", items |-> <<>>]

StrV(s) == Atom("str", s, 0)
IntV(n) == Atom("int", <<>>, n)
FloatV(n) == Atom("float", <<>>, n)
BoolV(b) == Atom("bool", <<>>, IF b THEN 1 ELSE 0)
NoneV == Atom("None", <<>>, 0)
\* An object of a class that is neither atomic, nor a Mapping, nor a Sequence.
SetV == Atom("set", <<>>, 0)

Container(tag, items) ==
    [tag |-> tag, s |-> <<>>, n |-> 0, ty |-> "", items |-> items]

Entry(k, v) == [k |-> k, v |-> v]
\* The entries of a sequence carry no key.
Elem(v) == [k |-> NoneK, v |-> v]

\* Native containers.
DictV(items) == Container("dict", items)
ListV(vals) == Container("list", [i \in 1..Len(vals) |-> Elem(vals[i])])

\* The view TypeFilteredValueMapping(mapping, type); the backing mapping is
\* the object the view was taken from.
ViewV(type) == [tag |-> "view", s |-> <<>>, n |-> 0, ty |-> type, items |-> <<>>]

\* The module-level singleton.
NothingContainer == Container("_NothingContainer", <<>>)

\* ------------------------------------------------- outcomes of operations

\* exc is "ok" or the class of the exception raised; val is the value
\* returned (for a mutator: the receiver after the call); ekey is args[0] of
\* a KeyError.
Ok(v) == [exc |-> "ok", val |-> v, ekey |-> NoneK]
Raise(e) == [exc |-> e, val |-> NoneV, ekey |-> NoneK]
KeyError(k) == [exc |-> "KeyError", val |-> NoneV, ekey |-> k]
\* A mutator that raised, leaving its receiver as self.
Failed(r, self) == [exc |-> r.exc, val |-> self, ekey |-> r.ekey]

\* ------------------------------------------------------ isinstance checks

\* ATOMIC_TYPES = integer_types + string_types + (bool, float, NoneType)
ATOMIC_TYPES == {"int", "str", "bool", "float", "None"}

\* isinstance(value, Mapping): dict, MagicDict (MagicMapping is a Mapping),
\* the view (a MutableMapping) and _NothingContainer.
IsMapping(value) == value.tag \in {"dict", "MagicDict", "view", "_NothingContainer"}

\* isinstance(value, Sequence): list, MagicList, _NothingContainer, and str.
IsSequence(value) == value.tag \in {"list", "MagicList", "_NothingContainer", "str"}

\* The keys of NORMALISED_TYPES.
NORMALISED_TYPES == {"bool", "dict", "float", "int", "list", "str"}

\* isinstance(value, NORMALISED_TYPES[t]) for t a key of NORMALISED_TYPES.
\* bool is a subclass of int; Sequence also matches str.
IsInstanceNormalised(value, t) ==
    CASE t = "bool" -> value.tag = "bool"
      [] t = "dict" -> IsMapping(value)
      [] t = "float" -> value.tag = "float"
      [] t = "int" -> value.tag \in {"int", "bool"}
      [] t = "list" -> IsSequence(value)
      [] t = "str" -> value.tag = "str"
      [] OTHER -> FALSE

\* generalise_type(t): the lookup succeeds, or raises ValueError.
generalise_type(t) == IF t \in NORMALISED_TYPES THEN Ok(NoneV) ELSE Raise("ValueError")

\* --------------------------------------------- the backing dict and list

\* Position of key in a dict's entries, 0 when absent.
RECURSIVE FindFrom(_, _, _)
FindFrom(items, key, i) ==
    IF i > Len(items) THEN 0
    ELSE IF items[i].k = key THEN i
    ELSE FindFrom(items, key, i + 1)

Find(items, key) == FindFrom(items, key, 1)

\* dict.__setitem__: an existing key keeps its place, a new one goes last.
DictPut(items, key, value) ==
    LET i == Find(items, key) IN
    IF i = 0 THEN Append(items, Entry(key, value))
    ELSE [items EXCEPT ![i] = Entry(key, value)]

RemoveAt(items, i) ==
    [j \in 1..(Len(items) - 1) |-> IF j < i THEN items[j] ELSE items[j + 1]]

\* list.insert(index, x): the index is clamped to the list, negative
\* indices count from the end.
InsertPos(len, index) ==
    IF index < 0 THEN (IF len + index < 0 THEN 0 ELSE len + index)
    ELSE IF index > len THEN len ELSE index

InsertAt(items, pos, e) ==
    [j \in 1..(Len(items) + 1) |->
        IF j <= pos THEN items[j] ELSE IF j = pos + 1 THEN e ELSE items[j - 1]]

\* list[index] with an integer index: 0 when out of range, else the
\* 1-based position.
ListPos(len, index) ==
    IF index >= 0 THEN (IF index < len THEN index + 1 ELSE 0)
    ELSE (IF len + index >= 0 THEN len + index + 1 ELSE 0)


\* ------------------------------------------------------------ enchantment

RECURSIVE enchant_value(_), MagicDict_setitem(_, _, _), MagicDict_update(_, _),
          MagicDict_init(_), MagicList_insert(_, _, _), MagicList_extend(_, _),
          MagicList_init(_)

\* enchant_value with the Sequence branch lost: a sequence is stored as it is.
enchant_value_no_list(value) ==
    IF value.tag \in ATOMIC_TYPES THEN Ok(value)
    ELSE IF IsMapping(value) THEN MagicDict_init(value)
    ELSE IF IsSequence(value) THEN Ok(value)
    ELSE Raise("ValueError")

\* enchant_value(value)
enchant_value(value) ==
    IF value.tag \in ATOMIC_TYPES THEN Ok(value)
    ELSE IF IsMapping(value) THEN MagicDict_init(value)
    ELSE IF IsSequence(value) THEN MagicList_init(value)
    ELSE Raise("ValueError")

\* MagicDict.__setitem__(self, key, value)
MagicDict_setitem(self, key, value) ==
    IF key.kind # "str" THEN Failed(Raise("TypeError"), self)
    ELSE LET e == enchant_value(value) IN
         IF e.exc # "ok" THEN Failed(e, self)
         ELSE Ok(Container("MagicDict", DictPut(self.items, key, e.val)))

\* self.update(mapping): for key in mapping: self[key] = mapping[key].  The
\* first assignment that raises ends the loop; the earlier ones stay.
MagicDict_update(self, items) ==
    IF items = <<>> THEN Ok(self)
    ELSE LET r == MagicDict_setitem(self, Head(items).k, Head(items).v) IN
         IF r.exc # "ok" THEN r ELSE MagicDict_update(r.val, Tail(items))

\* MagicDict(mapping): an exception leaves no object behind.
MagicDict_init(mapping) ==
    LET r == MagicDict_update(Container("MagicDict", <<>>), mapping.items) IN
    IF r.exc # "ok" THEN Failed(r, NoneV) ELSE r

\* insert() putting every value first, whatever the index.
MagicList_insert_first(self, index, value) ==
    LET e == enchant_value(value) IN
    IF e.exc # "ok" THEN Failed(e, self)
    ELSE Ok(Container("MagicList", InsertAt(self.items, 0, Elem(e.val))))

\* MagicList.insert(self, index, value)
MagicList_insert(self, index, value) ==
    LET e == enchant_value(value) IN
    IF e.exc # "ok" THEN Failed(e, self)
    ELSE Ok(Container("MagicList",
            InsertAt(self.items, InsertPos(Len(self.items), index), Elem(e.val))))

\* self.extend(values): for v in values: self.insert(len(self), v)
MagicList_extend(self, items) ==
    IF items = <<>> THEN Ok(self)
    ELSE LET r == MagicList_insert(self, Len(self.items), Head(items).v) IN
         IF r.exc # "ok" THEN r ELSE MagicList_extend(r.val, Tail(items))

\* MagicList(sequence)
MagicList_init(sequence) ==
    LET r == MagicList_extend(Container("MagicList", <<>>), sequence.items) IN
    IF r.exc # "ok" THEN Failed(r, NoneV) ELSE r

\* MagicList.__setitem__(self, index, value), index an integer: the value is
\* enchanted before the list is indexed.
MagicList_setitem(self, index, value) ==
    LET e == enchant_value(value)
        i == ListPos(Len(self.items), index)
    IN IF e.exc # "ok" THEN Failed(e, self)
       ELSE IF i = 0 THEN Failed(Raise("IndexError"), self)
       ELSE Ok(Container("MagicList", [self.items EXCEPT ![i] = Elem(e.val)]))

\* MagicDict.__delitem__(self, key)
MagicDict_delitem(self, key) ==
    IF key.kind # "str" THEN Failed(Raise("TypeError"), self)
    ELSE LET i == Find(self.items, key) IN
         IF i = 0 THEN Failed(KeyError(key), self)
         ELSE Ok(Container("MagicDict", RemoveAt(self.items, i)))

\* ----------------------------------------------------------------- lookup

\* MagicSequence.__getitem__(self, key): the list's own indexing.  A slice
\* whose stop is a type, and every key that is no integer, is a TypeError.
MagicSequence_getitem(self, key) ==
    IF key.kind # "int" THEN Raise("TypeError")
    ELSE LET i == ListPos(Len(self.items), key.n) IN
         IF i = 0 THEN Raise("IndexError") ELSE Ok(self.items[i].v)

RECURSIVE MagicMapping_getitem(_, _), GetItem(_, _), PathWalk(_, _, _)

\* container[key] for the containers a lookup can meet.
GetItem(container, key) ==
    IF container.tag = "MagicDict" THEN MagicMapping_getitem(container, key)
    ELSE MagicSequence_getitem(container, key)

\* The loop raising KeyError(path), the whole path, wherever it fails.
PathWalk_full_path(container, path, pos) ==
    IF pos > Len(path) - 1 THEN Ok(container)
    ELSE LET key == path[pos]
             types_are_correct ==
                 \/ container.tag = "MagicDict" /\ key.kind = "str"
                 \/ container.tag = "MagicList" /\ key.kind = "int"
         IN IF ~types_are_correct THEN KeyError(TupleK(path))
            ELSE LET r == GetItem(container, key) IN
                 IF r.exc \in {"KeyError", "IndexError"} THEN KeyError(TupleK(path))
                 ELSE IF r.exc # "ok" THEN r
                 ELSE IF r.val.tag \notin {"MagicDict", "MagicList"}
                      THEN KeyError(TupleK(path))
                 ELSE PathWalk(r.val, path, pos + 1)

\* The loop over path[:-1] of MagicMapping.__getitem__, from the component
\* at position pos (counted from 1, as enumerate(path[:-1], 1) does).
PathWalk(container, path, pos) ==
    IF pos > Len(path) - 1 THEN Ok(container)
    ELSE LET key == path[pos]
             prefix == TupleK(SubSeq(path, 1, pos))
             types_are_correct ==
                 \/ container.tag = "MagicDict" /\ key.kind = "str"
                 \/ container.tag = "MagicList" /\ key.kind = "int"
         IN IF ~types_are_correct THEN KeyError(prefix)
            ELSE LET r == GetItem(container, key) IN
                 IF r.exc \in {"KeyError", "IndexError"} THEN KeyError(prefix)
                 ELSE IF r.exc # "ok" THEN r
                 ELSE IF r.val.tag \notin {"MagicDict", "MagicList"}
                      THEN KeyError(prefix)
                 ELSE PathWalk(r.val, path, pos + 1)

\* The check left to the traversal, component by component.
NonTerminalsValid_lazy(path) == TRUE

\* all(isinstance(key, str or int) for key in path[:-1])
NonTerminalsValid(path) ==
    \A i \in 1..(Len(path) - 1) : path[i].kind \in {"str", "int"}

\* MagicMapping.__getitem__(self, key)
MagicMapping_getitem(self, key) ==
    IF key.kind = "str" THEN
        LET i == Find(self.items, key) IN
        IF i = 0 THEN KeyError(key) ELSE Ok(self.items[i].v)
    ELSE IF key.kind = "slice" THEN
        IF key.step THEN Raise("NotImplementedError")
        ELSE IF key.start = <<>> THEN Ok(ViewV(key.stop))
        ELSE LET r == MagicMapping_getitem(self, key.start[1]) IN
             IF r.exc # "ok" THEN r
             ELSE IF generalise_type(key.stop).exc # "ok" THEN Raise("ValueError")
             ELSE IF ~IsInstanceNormalised(r.val, key.stop) THEN Raise("ValueError")
             ELSE r
    ELSE IF key.kind = "tuple" THEN
        LET path == key.path IN
        IF path = <<>> THEN Raise("TypeError")
        ELSE IF ~NonTerminalsValid(path) THEN Raise("TypeError")
        ELSE LET w == PathWalk(self, path, 1) IN
             IF w.exc # "ok" THEN w
             ELSE LET r == GetItem(w.val, path[Len(path)]) IN
                  IF r.exc \in {"KeyError", "IndexError"} THEN KeyError(key)
                  ELSE r
    ELSE Raise("TypeError")

\* ------------------------------------------- TypeFilteredValueMapping

\* TypeFilteredValueMapping.__getitem__(self, key), with self._mapping =
\* mapping and self._type = type.
View_getitem(mapping, type, key) ==
    LET r == MagicMapping_getitem(mapping, key) IN
    IF r.exc # "ok" THEN r
    ELSE IF generalise_type(type).exc # "ok" THEN Raise("ValueError")
    ELSE IF ~IsInstanceNormalised(r.val, type) THEN KeyError(key)
    ELSE r

\* __setitem__ writing before it checks the type.
View_setitem_write_first(mapping, type, key, value) ==
    LET w == MagicDict_setitem(mapping, key, value) IN
    IF generalise_type(type).exc # "ok" THEN Failed(Raise("ValueError"), w.val)
    ELSE IF ~IsInstanceNormalised(value, type)
         THEN Failed(Raise("ValueError"), w.val)
    ELSE w

\* TypeFilteredValueMapping.__setitem__(self, key, value); val is the
\* backing mapping after the call.
View_setitem(mapping, type, key, value) ==
    IF generalise_type(type).exc # "ok" THEN Failed(Raise("ValueError"), mapping)
    ELSE IF ~IsInstanceNormalised(value, type)
         THEN Failed(Raise("ValueError"), mapping)
    ELSE MagicDict_setitem(mapping, key, value)

\* TypeFilteredValueMapping.__delitem__(self, key)
View_delitem(mapping, type, key) ==
    LET r == View_getitem(mapping, type, key) IN
    IF r.exc # "ok" THEN Failed(r, mapping)
    ELSE MagicDict_delitem(mapping, key)

\* The keys among entries whose value is an instance of the type.
RECURSIVE FilterKeys(_, _)
FilterKeys(items, type) ==
    IF items = <<>> THEN <<>>
    ELSE (IF IsInstanceNormalised(Head(items).v, type)
          THEN <<Head(items).k>> ELSE <<>>) \o FilterKeys(Tail(items), type)

\* list(iter(view)): the keys yielded, in order.
View_iter(mapping, type) ==
    IF generalise_type(type).exc # "ok" THEN Raise("ValueError")
    ELSE LET keys == FilterKeys(mapping.items, type) IN
         Ok(ListV([i \in 1..Len(keys) |-> StrV(keys[i].s)]))

\* __len__ answered by the backing mapping: len(self._mapping).
View_len_backing(mapping, type) ==
    IF generalise_type(type).exc # "ok" THEN Raise("ValueError")
    ELSE Ok(IntV(Len(mapping.items)))

\* TypeFilteredValueMapping.__len__(self): count(iter(self))
View_len(mapping, type) ==
    LET r == View_iter(mapping, type) IN
    IF r.exc # "ok" THEN r ELSE Ok(IntV(Len(r.val.items)))

\* key in view (Mapping.__contains__): self[key] raising KeyError is False,
\* returning is True, any other exception propagates.
View_contains(mapping, type, key) ==
    LET r == View_getitem(mapping, type, key) IN
    IF r.exc = "ok" THEN Ok(BoolV(TRUE))
    ELSE IF r.exc = "KeyError" THEN Ok(BoolV(FALSE))
    ELSE r


\* ------------------------------------------------- native containers

\* x[y] for native objects: dict, list, str, and objects without items.
NativeGetItem(x, y) ==
    IF x.tag = "dict" THEN
        IF y.kind \in {"slice"} THEN Raise("TypeError")
        ELSE LET i == Find(x.items, y) IN
             IF i = 0 THEN KeyError(y) ELSE Ok(x.items[i].v)
    ELSE IF x.tag = "list" THEN
        IF y.kind # "int" THEN Raise("TypeError")
        ELSE LET i == ListPos(Len(x.items), y.n) IN
             IF i = 0 THEN Raise("IndexError") ELSE Ok(x.items[i].v)
    ELSE IF x.tag = "str" THEN
        IF y.kind # "int" THEN Raise("TypeError")
        ELSE LET i == ListPos(Len(x.s), y.n) IN
             IF i = 0 THEN Raise("IndexError") ELSE Ok(StrV(<<x.s[i]>>))
    ELSE Raise("TypeError")

\* ------------------------------------------------------------ lookup_path

Digits == <<"0", "1", "2", "3", "4", "5", "6", "7", "8", "9">>
IsDigit(c) == \E i \in 1..10 : Digits[i] = c
DigitValue(c) == (CHOOSE i \in 1..10 : Digits[i] = c) - 1

\* str.split('.'): the pieces between the dots, at least one.
RECURSIVE SplitFrom(_, _, _)
SplitFrom(text, i, piece) ==
    IF i > Len(text) THEN <<piece>>
    ELSE IF text[i] = "." THEN <<piece>> \o SplitFrom(text, i + 1, <<>>)
    ELSE SplitFrom(text, i + 1, Append(piece, text[i]))

Split(text) == SplitFrom(text, 1, <<>>)

\* str.strip() of blanks.
RECURSIVE Strip(_)
Strip(text) ==
    IF text = <<>> THEN text
    ELSE IF Head(text) = " " THEN Strip(Tail(text))
    ELSE IF text[Len(text)] = " " THEN Strip(SubSeq(text, 1, Len(text) - 1))
    ELSE text

\* Digits with single underscores between them, read from the left;
\* acc is the number read so far.  -1 when the text is no such numeral.
RECURSIVE ReadDigits(_, _, _)
ReadDigits(text, i, acc) ==
    IF i > Len(text) THEN acc
    ELSE IF IsDigit(text[i]) THEN ReadDigits(text, i + 1, 10 * acc + DigitValue(text[i]))
    ELSE IF text[i] = "_" /\ i > 1 /\ i < Len(text)
            /\ IsDigit(text[i - 1]) /\ IsDigit(text[i + 1])
         THEN ReadDigits(text, i + 1, acc)
    ELSE -1

\* int(component): blanks stripped, an optional sign, decimal digits;
\* ValueError otherwise.
ParseInt(text) ==
    LET body == Strip(text)
        signed == body # <<>> /\ Head(body) \in {"-", "+"}
        digits == IF signed THEN Tail(body) ELSE body
        magnitude == IF digits = <<>> THEN -1 ELSE ReadDigits(digits, 1, 0)
    IN IF magnitude < 0 THEN Raise("ValueError")
       ELSE Ok(IntV(IF signed /\ Head(body) = "-" THEN 0 - magnitude ELSE magnitude))

\* The loop of lookup_path over the split path: a component int() accepts
\* is replaced by the integer.
Coerce(pieces) ==
    [i \in 1..Len(pieces) |->
        LET r == ParseInt(pieces[i]) IN
        IF r.exc = "ok" THEN IntK(r.val.n) ELSE StrK(pieces[i])]

\* reduce(lambda x, y: x[y], path, obj)
RECURSIVE Reduce(_, _)
Reduce(x, components) ==
    IF components = <<>> THEN Ok(x)
    ELSE LET r == NativeGetItem(x, Head(components)) IN
         IF r.exc # "ok" THEN r ELSE Reduce(r.val, Tail(components))

\* The default of lookup_path when none is given.
SENTINEL == Atom("_SENTINEL", <<>>, 0)

\* lookup_path with the conversion of integer components lost.
lookup_path_no_int(o, p, default) ==
    LET components == IF p.kind = "str"
                      THEN [i \in 1..Len(Split(p.s)) |-> StrK(Split(p.s)[i])]
                      ELSE p.path
        r == Reduce(o, components)
    IN IF r.exc \in {"IndexError", "KeyError", "TypeError"}
       THEN (IF default = SENTINEL THEN r ELSE Ok(default))
       ELSE r

\* lookup_path(obj, path, default): path is a str (kind "str") or a
\* sequence of components (kind "tuple").
lookup_path(o, p, default) ==
    LET components == IF p.kind = "str" THEN Coerce(Split(p.s)) ELSE p.path
        r == Reduce(o, components)
    IN IF r.exc \in {"IndexError", "KeyError", "TypeError"}
       THEN (IF default = SENTINEL THEN r ELSE Ok(default))
       ELSE r

\* ------------------------------------------------------- _NothingContainer

\* __getitem__ as an empty mapping would answer.
Nothing_getitem_empty(self, key) == KeyError(key)

\* _NothingContainer.__getitem__(self, key)
Nothing_getitem(self, key) == Ok(NothingContainer)

\* _NothingContainer.__len__(self)
Nothing_len(self) == 0

\* list(iter(self)): the generator yields nothing.
Nothing_iter(self) == <<>>

\* bool(self): without __bool__, the truth value is len(self) != 0.
Nothing_bool(self) == Nothing_len(self) # 0

\* ================================================================ state

VARIABLES
    d,      \* the MagicDict under test (the object, mutated in place)
    vtype,  \* _type of the view taken from d, "none" while no view is held
    op,     \* the last operation: its name and arguments
    res,    \* its outcome
    obj,    \* lookup_path: the native structure
    path,   \* lookup_path: the segmented path walked so far
    node,   \* lookup_path: the value reached by indexing obj along path
    dres,   \* lookup_path: the outcome for the dotted form of path
    chain,  \* NothingContainer: the keys indexed with so far
    cur     \* NothingContainer: the object the chain of lookups has reached

vars == <<d, vtype, op, res, obj, path, node, dres, chain, cur>>

\* ------------------------------------------------------------- inputs

\* Longest list built by insert / extend.
MaxLen == 2
\* Longest path tuple looked up.
MaxPath == 3

KA == <<"a">>
KB == <<"b">>
TX == <<"x">>

\* Keys assigned to and deleted: text keys and one that is no text.
Keys == {StrK(KA), StrK(KB), IntK(0)}

Nested == DictV(<<Entry(StrK(KA), ListV(<<IntV(1), DictV(<<Entry(StrK(KA), StrV(TX))>>)>>))>>)

\* Values assigned to a MagicDict: every atomic type, native containers
\* (nested, empty, with a key that is no text, with a value of a class that
\* is not allowed) and an object that is not allowed.
Values ==
    {StrV(TX), IntV(1), FloatV(1), BoolV(TRUE), NoneV,
     Nested, ListV(<<>>), DictV(<<Entry(IntK(0), IntV(1))>>),
     ListV(<<SetV>>), SetV}

\* Values inserted into a MagicList.
ListValues == {DictV(<<>>), SetV}

\* Arguments of extend().
ExtendArgs == {ListV(<<DictV(<<>>)>>), ListV(<<DictV(<<>>), SetV>>)}

\* Arguments of update().
UpdateArgs ==
    {DictV(<<Entry(StrK(KA), StrV(TX)), Entry(StrK(KB), ListV(<<>>))>>),
     DictV(<<Entry(StrK(KB), DictV(<<Entry(StrK(KA), IntV(1))>>)),
             Entry(IntK(0), IntV(1)), Entry(StrK(KA), IntV(1))>>)}

\* Values written through a view and into its backing mapping.
ViewValues == {StrV(TX), IntV(1), BoolV(TRUE), DictV(<<>>), ListV(<<>>), ListV(<<SetV>>)}

\* d[:type][key] = value, written in one statement.
ChainTypes == {"dict", "list", "set"}
ChainValues == {Nested, ListV(<<>>), StrV(TX)}

\* Type filters: the keys of NORMALISED_TYPES and one type that is none.
TypeTags == NORMALISED_TYPES \cup {"set"}

\* Keys looked up directly: text, a key that is no text, slices.
LookupKeys ==
    {StrK(KA), StrK(KB), IntK(0)}
    \cup {SliceK(<<k>>, t, FALSE) : k \in Keys, t \in TypeTags}
    \cup {SliceK(<<>>, t, FALSE) : t \in TypeTags}
    \cup {SliceK(<<StrK(KA)>>, "str", TRUE)}

\* Components of path tuples: text, integers, one that is neither, and a
\* type filter.
Comps ==
    {StrK(KA), StrK(KB), IntK(0), IntK(1), IntK(-1), FloatK,
     SliceK(<<StrK(KA)>>, "str", FALSE)}

\* Native mappings wrapped for path lookups.
NativeMappings ==
    {DictV(<<Entry(StrK(KA), StrV(TX)), Entry(StrK(KB), Nested)>>),
     DictV(<<Entry(StrK(KA), ListV(<<DictV(<<Entry(StrK(KB), BoolV(TRUE))>>),
                                     ListV(<<>>)>>)),
             Entry(StrK(KB), NoneV)>>),
     DictV(<<Entry(StrK(KA), DictV(<<Entry(StrK(KA),
                 DictV(<<Entry(StrK(KA), FloatV(1))>>))>>))>>),
     DictV(<<Entry(StrK(KA), ListV(<<ListV(<<StrV(TX), IntV(1)>>)>>))>>),
     DictV(<<>>),
     DictV(<<Entry(StrK(KA), IntV(1)), Entry(IntK(0), IntV(1))>>)}

\* --------------------------------------------------------------- actions

Op(name, key, val) == [name |-> name, key |-> key, val |-> val]

\* The outcome of a statement: what it raised.
Stmt(r) == [r EXCEPT !.val = NoneV]

\* d[key] = value
SetItem(key, value) ==
    LET r == MagicDict_setitem(d, key, value) IN
    /\ d' = r.val
    /\ op' = Op("setitem", key, value)
    /\ res' = Stmt(r)
    /\ UNCHANGED <<vtype, obj, path, node, dres, chain, cur>>

\* del d[key]
DelItem(key) ==
    LET r == MagicDict_delitem(d, key) IN
    /\ d' = r.val
    /\ op' = Op("delitem", key, NoneV)
    /\ res' = Stmt(r)
    /\ UNCHANGED <<vtype, obj, path, node, dres, chain, cur>>

\* d.update(mapping)
Update(mapping) ==
    LET r == MagicDict_update(d, mapping.items) IN
    /\ d' = r.val
    /\ op' = Op("update", NoneK, mapping)
    /\ res' = Stmt(r)
    /\ UNCHANGED <<vtype, obj, path, node, dres, chain, cur>>

\* The MagicList held under key, mutated in place.
HoldsList(key) ==
    /\ Find(d.items, key) # 0
    /\ d.items[Find(d.items, key)].v.tag = "MagicList"

ListAt(key) == d.items[Find(d.items, key)].v

WithList(key, list) ==
    Container("MagicDict", [d.items EXCEPT ![Find(d.items, key)] = Entry(key, list)])

\* d[key].insert(index, value)
ListInsert(key, index, value) ==
    /\ HoldsList(key)
    /\ Len(ListAt(key).items) < MaxLen
    /\ LET r == MagicList_insert(ListAt(key), index, value) IN
       /\ d' = WithList(key, r.val)
       /\ op' = Op("insert", TupleK(<<key, IntK(index)>>), value)
       /\ res' = Stmt(r)
    /\ UNCHANGED <<vtype, obj, path, node, dres, chain, cur>>

\* d[key][index] = value
ListSetItem(key, index, value) ==
    /\ HoldsList(key)
    /\ LET r == MagicList_setitem(ListAt(key), index, value) IN
       /\ d' = WithList(key, r.val)
       /\ op' = Op("list_setitem", TupleK(<<key, IntK(index)>>), value)
       /\ res' = Stmt(r)
    /\ UNCHANGED <<vtype, obj, path, node, dres, chain, cur>>

\* d[key].extend(values)
ListExtend(key, values) ==
    /\ HoldsList(key)
    /\ Len(ListAt(key).items) + Len(values.items) <= MaxLen
    /\ LET r == MagicList_extend(ListAt(key), values.items) IN
       /\ d' = WithList(key, r.val)
       /\ op' = Op("extend", key, values)
       /\ res' = Stmt(r)
    /\ UNCHANGED <<vtype, obj, path, node, dres, chain, cur>>

\* d[key], for every shape of key
Lookup(key) ==
    /\ op' = Op("getitem", key, NoneV)
    /\ res' = MagicMapping_getitem(d, key)
    /\ UNCHANGED <<d, vtype, obj, path, node, dres, chain, cur>>

\* The view taken from d: d[:type]
GetView(type) ==
    LET r == MagicMapping_getitem(d, SliceK(<<>>, type, FALSE)) IN
    /\ op' = Op("getview", SliceK(<<>>, type, FALSE), NoneV)
    /\ res' = r
    /\ vtype' = IF r.exc = "ok" /\ r.val.tag = "view" THEN r.val.ty ELSE vtype
    /\ UNCHANGED <<d, obj, path, node, dres, chain, cur>>

\* view[key] = value, for the view of the given type over d
ViewSet(type, key, value) ==
    LET r == View_setitem(d, type, key, value) IN
    /\ d' = r.val
    /\ op' = Op("view_setitem", key, value)
    /\ res' = Stmt(r)
    /\ UNCHANGED <<vtype, obj, path, node, dres, chain, cur>>

\* del view[key]
ViewDel(type, key) ==
    LET r == View_delitem(d, type, key) IN
    /\ d' = r.val
    /\ op' = Op("view_delitem", key, NoneV)
    /\ res' = Stmt(r)
    /\ UNCHANGED <<vtype, obj, path, node, dres, chain, cur>>

\* view[key]
ViewGet(key) ==
    /\ vtype # "none"
    /\ op' = Op("view_getitem", key, NoneV)
    /\ res' = View_getitem(d, vtype, key)
    /\ UNCHANGED <<d, vtype, obj, path, node, dres, chain, cur>>

\* key in view
ViewContains(key) ==
    /\ vtype # "none"
    /\ op' = Op("view_contains", key, NoneV)
    /\ res' = View_contains(d, vtype, key)
    /\ UNCHANGED <<d, vtype, obj, path, node, dres, chain, cur>>

\* list(view)
ViewIter ==
    /\ vtype # "none"
    /\ op' = Op("view_iter", NoneK, NoneV)
    /\ res' = View_iter(d, vtype)
    /\ UNCHANGED <<d, vtype, obj, path, node, dres, chain, cur>>

\* len(view)
ViewLen ==
    /\ vtype # "none"
    /\ op' = Op("view_len", NoneK, NoneV)
    /\ res' = View_len(d, vtype)
    /\ UNCHANGED <<d, vtype, obj, path, node, dres, chain, cur>>

MagicInit ==
    /\ d = Container("MagicDict", <<>>)
    /\ vtype = "none"
    /\ op = Op("init", NoneK, NoneV)
    /\ res = Ok(NoneV)

Init ==
    /\ MagicInit
    /\ obj = NoneV
    /\ path = <<>>
    /\ node = NoneV
    /\ dres = Ok(NoneV)
    /\ chain = <<>>
    /\ cur = NothingContainer

Next ==
    \/ \E key \in Keys, value \in Values : SetItem(key, value)
    \/ \E key \in Keys : DelItem(key)
    \/ \E mapping \in UpdateArgs : Update(mapping)
    \/ \E key \in Keys, index \in {-1, 0, 1}, value \in ListValues :
           ListInsert(key, index, value)
    \/ \E key \in Keys, index \in {-1, 0, 1}, value \in ListValues :
           ListSetItem(key, index, value)
    \/ \E key \in Keys, values \in ExtendArgs : ListExtend(key, values)
    \/ \E key \in LookupKeys : Lookup(key)
    \/ \E type \in ChainTypes, key \in Keys, value \in ChainValues :
           ViewSet(type, key, value)
    \/ \E type \in ChainTypes, key \in Keys : ViewDel(type, key)

Spec == Init /\ [][Next]_vars

\* A view is taken from d and held while d is mutated, directly and through
\* the view.
NextView ==
    \/ \E key \in Keys, value \in ViewValues : SetItem(key, value)
    \/ \E key \in Keys : DelItem(key)
    \/ \E type \in TypeTags : GetView(type)
    \/ \E key \in Keys, value \in ViewValues :
           vtype # "none" /\ ViewSet(vtype, key, value)
    \/ \E key \in Keys : vtype # "none" /\ ViewDel(vtype, key)
    \/ \E key \in Keys : ViewGet(key)
    \/ \E key \in Keys : ViewContains(key)
    \/ ViewIter
    \/ ViewLen

SpecView == Init /\ [][NextView]_vars


\* ------------------------------------------------------- path lookups

\* d = MagicDict(obj); a constructor that raises leaves no new object.
Construct ==
    LET r == MagicDict_init(obj) IN
    /\ d' = IF r.exc = "ok" THEN r.val ELSE d
    /\ op' = Op("construct", NoneK, obj)
    /\ res' = Stmt(r)
    /\ UNCHANGED <<vtype, obj, path, node, dres, chain, cur>>

\* The caller writes the next component of its path tuple.
AddComponent(c) ==
    /\ Len(path) < MaxPath
    /\ path' = Append(path, c)
    /\ op' = Op("path", NoneK, NoneV)
    /\ res' = Ok(NoneV)
    /\ UNCHANGED <<d, vtype, obj, node, dres, chain, cur>>

\* d[tuple(path)]
LookupTuple ==
    /\ op' = Op("getitem", TupleK(path), NoneV)
    /\ res' = MagicMapping_getitem(d, TupleK(path))
    /\ UNCHANGED <<d, vtype, obj, path, node, dres, chain, cur>>

InitPath ==
    /\ MagicInit
    /\ obj \in NativeMappings
    /\ path = <<>>
    /\ node = NoneV
    /\ dres = Ok(NoneV)
    /\ chain = <<>>
    /\ cur = NothingContainer

NextPath ==
    \/ Construct
    \/ \E c \in Comps : AddComponent(c)
    \/ LookupTuple

SpecPath == InitPath /\ [][NextPath]_vars

\* ----------------------------------------------------------- lookup_path

\* Longest path walked into a native structure.
MaxDepth == 4

TAB == <<"a", ".", "b">>
T1 == <<"1">>
TE == <<>>

NativeStructs ==
    {DictV(<<Entry(StrK(KA), IntV(1)),
             Entry(StrK(KB), DictV(<<Entry(StrK(KA),
                 ListV(<<IntV(1), DictV(<<Entry(StrK(KB), StrV(TAB))>>)>>))>>))>>),
     DictV(<<Entry(StrK(TAB), IntV(1)),
             Entry(StrK(KA), DictV(<<Entry(StrK(KB), IntV(2))>>))>>),
     DictV(<<Entry(StrK(T1), StrV(TX)),
             Entry(StrK(KA), ListV(<<StrV(TX), IntV(1)>>))>>),
     ListV(<<ListV(<<IntV(1), IntV(2)>>), DictV(<<Entry(StrK(KA), StrV(TX))>>)>>),
     DictV(<<Entry(StrK(TE), DictV(<<Entry(StrK(TE), IntV(1))>>))>>)}

WalkComps ==
    {StrK(KA), StrK(KB), StrK(TAB), StrK(T1), StrK(TE), IntK(0), IntK(1), IntK(-1)}

Defaults == {StrV(TX), NoneV}

\* str(c) of a path component.
RECURSIVE NatToStr(_)
NatToStr(n) ==
    IF n < 10 THEN <<Digits[n + 1]>>
    ELSE NatToStr(n \div 10) \o <<Digits[(n % 10) + 1]>>

PyStr(c) ==
    IF c.kind = "str" THEN c.s
    ELSE IF c.n < 0 THEN <<"-">> \o NatToStr(0 - c.n)
    ELSE NatToStr(c.n)

\* '.'.join(str(c) for c in p)
RECURSIVE Dotted(_)
Dotted(p) ==
    IF p = <<>> THEN <<>>
    ELSE IF Len(p) = 1 THEN PyStr(p[1])
    ELSE PyStr(p[1]) \o <<".">> \o Dotted(Tail(p))

\* The caller indexes one level further into obj.
Descend(c) ==
    /\ Len(path) < MaxDepth
    /\ NativeGetItem(node, c).exc = "ok"
    /\ path' = Append(path, c)
    /\ node' = NativeGetItem(node, c).val
    /\ op' = Op("descend", c, NoneV)
    /\ res' = Ok(NoneV)
    /\ dres' = Ok(NoneV)
    /\ UNCHANGED <<d, vtype, obj, chain, cur>>

\* lookup_path(obj, path) and lookup_path(obj, '.'.join(...)), or both with
\* a default.
LookupPath(default) ==
    /\ op' = Op("lookup_path", TupleK(path), default)
    /\ res' = lookup_path(obj, TupleK(path), default)
    /\ dres' = lookup_path(obj, StrK(Dotted(path)), default)
    /\ UNCHANGED <<d, vtype, obj, path, node, chain, cur>>

InitLookup ==
    /\ MagicInit
    /\ obj \in NativeStructs
    /\ path = <<>>
    /\ node = obj
    /\ dres = Ok(NoneV)
    /\ chain = <<>>
    /\ cur = NothingContainer

NextLookup ==
    \/ \E c \in WalkComps : Descend(c)
    \/ \E default \in Defaults \cup {SENTINEL} : LookupPath(default)

SpecLookup == InitLookup /\ [][NextLookup]_vars

\* ------------------------------------------------------ NothingContainer

\* Longest chain of lookups from NothingContainer.
MaxChain == 3

NothingKeys ==
    {StrK(KA), IntK(0), IntK(-1), NoneK, SliceK(<<>>, "str", FALSE), TupleK(<<>>)}

\* x[key] for whatever object a chain has reached.
ObjGetItem(x, key) ==
    IF x.tag = "_NothingContainer" THEN Nothing_getitem(x, key)
    ELSE IF x.tag \in {"MagicDict", "MagicList"} THEN GetItem(x, key)
    ELSE NativeGetItem(x, key)

\* cur = cur[key]; when the lookup raises, the chain stops where it is.
NothingIndex(key) ==
    /\ Len(chain) < MaxChain
    /\ LET r == ObjGetItem(cur, key) IN
       /\ cur' = IF r.exc = "ok" THEN r.val ELSE cur
       /\ res' = r
    /\ chain' = Append(chain, key)
    /\ op' = Op("nothing_getitem", key, NoneV)
    /\ UNCHANGED <<d, vtype, obj, path, node, dres>>

\* len(cur)
NothingLen ==
    /\ op' = Op("nothing_len", NoneK, NoneV)
    /\ res' = Ok(IntV(Nothing_len(cur)))
    /\ UNCHANGED <<d, vtype, obj, path, node, dres, chain, cur>>

\* list(cur)
NothingIter ==
    /\ op' = Op("nothing_iter", NoneK, NoneV)
    /\ res' = Ok(ListV(Nothing_iter(cur)))
    /\ UNCHANGED <<d, vtype, obj, path, node, dres, chain, cur>>

\* bool(cur)
NothingBool ==
    /\ op' = Op("nothing_bool", NoneK, NoneV)
    /\ res' = Ok(BoolV(Nothing_bool(cur)))
    /\ UNCHANGED <<d, vtype, obj, path, node, dres, chain, cur>>

NextNothing ==
    \/ \E key \in NothingKeys : NothingIndex(key)
    \/ NothingLen
    \/ NothingIter
    \/ NothingBool

SpecNothing == Init /\ [][NextNothing]_vars

\* ================================================================ claims

\* Every key of a MagicDict is text and every value of a MagicDict or
\* MagicList is atomic or itself a MagicDict or MagicList, all the way down.
RECURSIVE Enchanted(_)
Enchanted(v) ==
    \/ v.tag \in ATOMIC_TYPES
    \/ /\ v.tag = "MagicDict"
       /\ \A i \in 1..Len(v.items) :
              v.items[i].k.kind = "str" /\ Enchanted(v.items[i].v)
    \/ /\ v.tag = "MagicList"
       /\ \A i \in 1..Len(v.items) : Enchanted(v.items[i].v)

\* C1: after any sequence of update, item assignment and deletion, writes
\* and deletes through a view, and MagicList insert / extend / item
\* assignment, d is a MagicDict whose keys are all text and whose values,
\* at every depth, are scalars, MagicDicts or MagicLists, never a native
\* mapping or sequence.
C1_WrappingInvariant == d.tag = "MagicDict" /\ Enchanted(d)

\* A native mapping holding a native list holding a native mapping was
\* written through a view and is stored, wrapped, beside a MagicList.
C1_Witness ==
    /\ op.name = "view_setitem"
    /\ op.val = Nested
    /\ res.exc = "ok"
    /\ Find(d.items, op.key) # 0
    /\ d.items[Find(d.items, op.key)].v.tag = "MagicDict"
    /\ \E i \in 1..Len(d.items) :
           d.items[i].v.tag = "MagicList" /\ Len(d.items[i].v.items) > 0

\* The type tag of a value's own type, "NoneType" for None.
TagOf(v) ==
    CASE v.tag = "MagicDict" -> "dict"
      [] v.tag = "MagicList" -> "list"
      [] v.tag = "None" -> "NoneType"
      [] OTHER -> v.tag

\* The lookup d[k:T] of a key present in d, with a recognized T.
IsFilteredLookup ==
    /\ op.name = "getitem"
    /\ op.key.kind = "slice"
    /\ ~op.key.step
    /\ op.key.start # <<>>
    /\ op.key.stop \in NORMALISED_TYPES
    /\ Find(d.items, op.key.start[1]) # 0

\* C2: d[k:T], for k present in d with value v and T a recognized tag,
\* returns v when T is the tag of v's type and raises ValueError for every
\* other recognized tag.
C2_FilteredLookup ==
    IsFilteredLookup =>
        LET v == d.items[Find(d.items, op.key.start[1])].v IN
        IF op.key.stop = TagOf(v) THEN res = Ok(v) ELSE res.exc = "ValueError"

\* C5: d[:T] raises ValueError at the lookup when T is no recognized tag; a
\* view is returned for recognized tags only.
C5_InvalidFilterRejected ==
    (op.name = "getitem" /\ op.key.kind = "slice" /\ ~op.key.step
        /\ op.key.start = <<>>) =>
        IF op.key.stop \in NORMALISED_TYPES
        THEN res.exc = "ok" /\ res.val = ViewV(op.key.stop)
        ELSE res.exc = "ValueError"

\* The text keys whose value in d now matches the view's type.
Matching ==
    {d.items[i].k : i \in {j \in 1..Len(d.items) :
                               IsInstanceNormalised(d.items[j].v, vtype)}}

Iterated(r) == {StrK(r.val.items[i].v.s) : i \in 1..Len(r.val.items)}

TextKeys == {k \in Keys : k.kind = "str"}

Others(m, key) == {e \in {m.items[i] : i \in 1..Len(m.items)} : e.k # key}

IsTupleLookup == op.name = "getitem" /\ op.key.kind = "tuple"

\* Every component of p but the last is text or an integer.
WellFormed(p) == \A i \in 1..(Len(p) - 1) : p[i].kind \in {"str", "int"}

\* Whether d, indexed with the components p[1..i] one after the other, a
\* MagicDict with text and a MagicList with an integer, yields a MagicDict
\* or MagicList at every step; and the container reached.
RECURSIVE StepsTo(_, _)
StepsTo(p, i) ==
    IF i = 0 THEN Ok(d)
    ELSE LET before == StepsTo(p, i - 1) IN
         IF before.exc # "ok" THEN before
         ELSE IF ~(\/ before.val.tag = "MagicDict" /\ p[i].kind = "str"
                   \/ before.val.tag = "MagicList" /\ p[i].kind = "int")
              THEN Raise("mismatch")
         ELSE LET r == GetItem(before.val, p[i]) IN
              IF r.exc # "ok" THEN r
              ELSE IF r.val.tag \notin {"MagicDict", "MagicList"}
                   THEN Raise("no container")
              ELSE r

\* C3: for a path tuple whose non-terminal components are all text or
\* integers, a lookup that fails to resolve non-terminal component i raises
\* KeyError whose key is the prefix p[1..i]; if every non-terminal component
\* resolves and the final lookup raises KeyError or IndexError, the lookup
\* raises KeyError whose key is the whole tuple.
C3_KeyErrorPrefix ==
    (IsTupleLookup /\ op.key.path # <<>> /\ WellFormed(op.key.path)) =>
        LET p == op.key.path
            n == Len(p)
            failing == {i \in 1..(n - 1) : StepsTo(p, i).exc # "ok"}
        IN IF failing # {}
           THEN LET i == CHOOSE j \in failing : \A k \in failing : j <= k IN
                res = KeyError(TupleK(SubSeq(p, 1, i)))
           ELSE LET last == GetItem(StepsTo(p, n - 1).val, p[n]) IN
                last.exc \in {"KeyError", "IndexError"} => res = KeyError(op.key)

\* A lookup of three components failed at the second: the key reported is
\* the first two.
C3_Witness ==
    /\ IsTupleLookup
    /\ Len(op.key.path) = 3
    /\ WellFormed(op.key.path)
    /\ StepsTo(op.key.path, 1).exc = "ok"
    /\ res.exc = "KeyError"
    /\ res.ekey = TupleK(SubSeq(op.key.path, 1, 2))

\* C4: a path tuple that is empty, or has a component other than the last
\* that is neither text nor an integer, raises TypeError, whatever d holds
\* and whether or not the components before the bad one resolve.
C4_MalformedPath ==
    (IsTupleLookup /\ (op.key.path = <<>> \/ ~WellFormed(op.key.path))) =>
        res.exc = "TypeError"

\* A path whose second component is malformed and whose first component is
\* missing from a d that holds entries was refused with TypeError.
C4_Witness ==
    /\ IsTupleLookup
    /\ Len(op.key.path) = 3
    /\ op.key.path[1].kind = "str"
    /\ op.key.path[2].kind = "float"
    /\ Len(d.items) > 0
    /\ Find(d.items, op.key.path[1]) = 0
    /\ res.exc = "TypeError"

\* Successive indexing into native mappings and sequences.
RECURSIVE NativeReach(_, _)
NativeReach(x, p) ==
    IF p = <<>> THEN Ok(x)
    ELSE IF x.tag \notin {"dict", "list"} THEN Raise("TypeError")
    ELSE LET r == NativeGetItem(x, Head(p)) IN
         IF r.exc # "ok" THEN r ELSE NativeReach(r.val, Tail(p))

\* d is MagicDict(obj), and p, of text keys and integer indices, leads to a
\* scalar in obj.
ReachesLeaf(p) ==
    /\ p # <<>>
    /\ \A i \in 1..Len(p) : p[i].kind \in {"str", "int"}
    /\ MagicDict_init(obj).exc = "ok"
    /\ d = MagicDict_init(obj).val
    /\ NativeReach(obj, p).exc = "ok"
    /\ NativeReach(obj, p).val.tag \in ATOMIC_TYPES

\* C9: for a native mapping obj that MagicDict accepts and a non-empty path
\* p of text keys and integer indices that leads to a scalar x in obj, the
\* lookup MagicDict(obj)[p] returns x.
C9_RoundTrip ==
    (IsTupleLookup /\ ReachesLeaf(op.key.path)) =>
        res = Ok(NativeReach(obj, op.key.path).val)

\* A scalar three levels down, under a list index counted from the end, was
\* read back.
C9_Witness ==
    /\ IsTupleLookup
    /\ ReachesLeaf(op.key.path)
    /\ Len(op.key.path) = 3
    /\ \E i \in 1..3 : op.key.path[i] = IntK(-1)
    /\ res.exc = "ok"
    /\ res.val.tag = "int"

\* The segmented and the dotted form were looked up, without a default.
IsPathLookup == op.name = "lookup_path" /\ op.val = SENTINEL

\* C8 as stated: for every path reachable in obj by successive indexing, the
\* empty path included, lookup_path gives the same for the path and for its
\* components joined with dots.
C8_DottedAgrees == IsPathLookup => res = dres

\* A text component that the dotted form reads back as it is: it holds no
\* dot and int() rejects it.
PlainText(c) ==
    /\ \A i \in 1..Len(c.s) : c.s[i] # "."
    /\ ParseInt(c.s).exc # "ok"

\* C8 amended: for every non-empty path reachable in obj by successive
\* indexing whose text components hold no dot and are not accepted by
\* int(), lookup_path returns the value reached, for the path and for its
\* components joined with dots alike.
C8_DottedAgreesPlain ==
    (/\ IsPathLookup
     /\ path # <<>>
     /\ \A i \in 1..Len(path) : path[i].kind = "str" => PlainText(path[i])) =>
        res = Ok(node) /\ dres = res

\* A path of text keys and a list index, four levels deep, was looked up in
\* both forms.
C8_Witness ==
    /\ IsPathLookup
    /\ Len(path) = 4
    /\ \E i \in 1..4 : path[i].kind = "int"
    /\ \E i \in 1..4 : path[i].kind = "str"
    /\ \A i \in 1..4 : path[i].kind = "str" => PlainText(path[i])
    /\ dres.exc = "ok"

\* C10: every chain of lookups from NothingContainer stays at
\* NothingContainer, each lookup returning the singleton; its length is 0,
\* it iterates over nothing and its truth value is false.
C10_NothingAbsorbs ==
    /\ cur = NothingContainer
    /\ Nothing_len(cur) = 0
    /\ Nothing_iter(cur) = <<>>
    /\ ~Nothing_bool(cur)
    /\ op.name = "nothing_getitem" => res = Ok(NothingContainer)
    /\ op.name = "nothing_len" => res = Ok(IntV(0))
    /\ op.name = "nothing_iter" => res = Ok(ListV(<<>>))
    /\ op.name = "nothing_bool" => res = Ok(BoolV(FALSE))

\* Three lookups deep, with a text key, an index and a slice, the truth
\* value was taken.
C10_Witness ==
    /\ Len(chain) = 3
    /\ chain[1].kind = "str"
    /\ chain[2].kind = "int"
    /\ chain[3].kind = "slice"
    /\ op.name = "nothing_bool"
    /\ res = Ok(BoolV(FALSE))

====
